---------------------------- MODULE Spec2Model ----------------------------
(***************************************************************************)
(* EduBot: the account / session / message / analytics store               *)
(* (src/database.py) and the access controller over it (src/auth.py),      *)
(* as a state machine.                                                      *)
(*                                                                          *)
(* Storage is one SQLite file.  Every Database method opens its own        *)
(* connection (get_connection); Python's sqlite3 opens a transaction        *)
(* before the first INSERT/UPDATE of a connection and keeps it open until  *)
(* commit().  SQLite lets one connection at a time hold the write lock; a  *)
(* second writer gets "database is locked" (sqlite3.OperationalError)      *)
(* once its busy timeout expires.  A connection that is dropped without    *)
(* commit() rolls its transaction back.  sqlite3.connect() leaves          *)
(* PRAGMA foreign_keys at its default (off), so the FOREIGN KEY clauses of *)
(* the schema are not enforced; UNIQUE, NOT NULL and CHECK are.            *)
(*                                                                          *)
(* Text that the code inspects character by character (username,           *)
(* password, email, full name) is a sequence of one-character strings.     *)
(* Other text is a TLA+ string; NULL stands for Python's None / SQL NULL.  *)
(* The created_at columns are written once and never read by the           *)
(* operations modelled here; they are left out of the rows.                *)
(***************************************************************************)
EXTENDS Naturals, Sequences, FiniteSets

(***************************************************************************)
(* Bounds of the model.                                                     *)
(***************************************************************************)
MaxUsers == 2
MaxSessions == 2
MaxMsgs == 2
MaxTicks == 1
MaxLimit == 2

(***************************************************************************)
(* Program constants.                                                       *)
(***************************************************************************)
MinUsernameLen == 3
MinPasswordLen == 6
BcryptMaxBytes == 72

NULL == "NULL"
\* Timestamps are 1..(1 + MaxTicks); a NULL timestamp column is NullTs.
NullTs == 0
\* A session or user identifier that no uuid4() call of the program returned.
GhostId == 0

Callers == {"c1", "c2"}
NoCaller == "none"

Roles == {"student", "faculty"}
MessageTypes == {"text", "image"}

(***************************************************************************)
(* Text helpers.                                                            *)
(***************************************************************************)
Chars(s) == {s[i] : i \in 1..Len(s)}

Whitespace == {" ", "\t", "\n"}

RECURSIVE LStrip(_)
LStrip(s) == IF s # <<>> /\ Head(s) \in Whitespace THEN LStrip(Tail(s)) ELSE s

RECURSIVE RStrip(_)
RStrip(s) ==
    IF s # <<>> /\ s[Len(s)] \in Whitespace
        THEN RStrip(SubSeq(s, 1, Len(s) - 1))
        ELSE s

\* str.strip()
Strip(s) == RStrip(LStrip(s))

(***************************************************************************)
(* bcrypt.  hashpw(password, salt) keeps the salt in the hash and digests  *)
(* at most the first BcryptMaxBytes bytes of the password; checkpw         *)
(* re-hashes the candidate under the stored salt and compares.             *)
(***************************************************************************)
Truncate(p) == IF Len(p) > BcryptMaxBytes THEN SubSeq(p, 1, BcryptMaxBytes) ELSE p

hashpw(password, salt) == [salt |-> salt, digest |-> <<salt, Truncate(password)>>]

checkpw(password, hash) == hashpw(password, hash.salt) = hash

(***************************************************************************)
(* Inputs.  A registration form is what render_register_form submits.      *)
(***************************************************************************)
Str_alice == <<"a", "l", "i", "c", "e">>
Str_Alice == <<"A", "l", "i", "c", "e">>
Str_bob == <<"b", "o", "b">>
Str_carol == <<"c", "a", "r", "o", "l">>
Str_al == <<"a", "l">>
Str_mailA == <<"a", "@", "x", ".", "e">>
Str_mailB == <<"b", "@", "x", ".", "e">>
Str_mailC == <<"c", "@", "x", ".", "e">>
Str_mailNoAt == <<"a", "x", ".", "e">>
Str_mailNoDot == <<"a", "@", "x">>
Str_mailNone == <<"a", "x">>
Str_pw1 == <<"p", "a", "s", "s", "w", "1">>
Str_pw2 == <<"s", "e", "c", "r", "e", "t", "9">>
Str_abc == <<"a", "b", "c">>
Str_nameA == <<"A", " ", "A">>
Str_nameB == <<"B", "o", "b">>
Str_blank == <<" ", "\t">>

Form(u, e, p, cp, r, n, d) ==
    [username |-> u, email |-> e, password |-> p, confirm_password |-> cp,
     role |-> r, full_name |-> n, department |-> d]

\* Forms that pass validation.  FormA/FormB share a username, FormA/FormC an
\* email, FormB/FormD an email; Str_alice and Str_Alice differ only in case.
FormA == Form(Str_alice, Str_mailA, Str_pw1, Str_pw1, "student", Str_nameA, "CS")
FormB == Form(Str_alice, Str_mailB, Str_pw2, Str_pw2, "student", Str_nameA, NULL)
FormC == Form(Str_Alice, Str_mailA, Str_pw1, Str_pw1, "faculty", Str_nameA, NULL)
FormD == Form(Str_bob, Str_mailB, Str_pw2, Str_pw2, "faculty", Str_nameB, "EE")
FormE == Form(Str_carol, Str_mailC, Str_pw1, Str_pw1, "student", Str_nameB, NULL)
ValidForms == {FormA, FormB, FormC, FormD, FormE}

\* Forms that validation rejects, one per check of register_user.
FormShortUser == Form(Str_al, Str_mailA, Str_pw1, Str_pw1, "student", Str_nameA, NULL)
FormShortPw == Form(Str_bob, Str_mailB, Str_abc, Str_abc, "student", Str_nameB, NULL)
FormMismatch == Form(Str_bob, Str_mailB, Str_pw1, Str_pw2, "student", Str_nameB, NULL)
FormNoAt == Form(Str_bob, Str_mailNoAt, Str_pw2, Str_pw2, "student", Str_nameB, NULL)
FormNoDot == Form(Str_bob, Str_mailNoDot, Str_pw2, Str_pw2, "student", Str_nameB, NULL)
FormNoSep == Form(Str_bob, Str_mailNone, Str_pw2, Str_pw2, "student", Str_nameB, NULL)
FormBlankName == Form(Str_bob, Str_mailB, Str_pw2, Str_pw2, "faculty", Str_blank, NULL)
InvalidForms ==
    {FormShortUser, FormShortPw, FormMismatch, FormNoAt, FormNoDot, FormNoSep,
     FormBlankName}

Forms == ValidForms \cup InvalidForms

\* What the login form can submit.
LoginNames == {Str_alice, Str_Alice, Str_bob}
LoginPasswords == {Str_pw1, Str_pw2, <<>>}

(***************************************************************************)
(* Messages of AuthManager.                                                 *)
(***************************************************************************)
MsgShortUser == "Username must be at least 3 characters long"
MsgShortPw == "Password must be at least 6 characters long"
MsgMismatch == "Passwords do not match"
MsgBadEmail == "Please enter a valid email address"
MsgNoName == "Full name is required"
MsgRegistered == "Registration successful! Please log in."
MsgDuplicate == "Username or email already exists"
MsgEnterBoth == "Please enter both username and password"
MsgWelcome == "Welcome back"
MsgInvalidLogin == "Invalid username or password"

\* The validation with "and" for "or" in the email check.
ValidationErrorAnd(f) ==
    IF Len(f.username) < MinUsernameLen THEN MsgShortUser
    ELSE IF Len(f.password) < MinPasswordLen THEN MsgShortPw
    ELSE IF f.password # f.confirm_password THEN MsgMismatch
    ELSE IF "@" \notin Chars(f.email) /\ "." \notin Chars(f.email) THEN MsgBadEmail
    ELSE IF Strip(f.full_name) = <<>> THEN MsgNoName
    ELSE NULL

\* register_user's validation: the message of the first failing check, or
\* NULL when the form goes on to create_user.
ValidationError(f) ==
    IF Len(f.username) < MinUsernameLen THEN MsgShortUser
    ELSE IF Len(f.password) < MinPasswordLen THEN MsgShortPw
    ELSE IF f.password # f.confirm_password THEN MsgMismatch
    ELSE IF "@" \notin Chars(f.email) \/ "." \notin Chars(f.email) THEN MsgBadEmail
    ELSE IF Strip(f.full_name) = <<>> THEN MsgNoName
    ELSE NULL


(***************************************************************************)
(* State.                                                                   *)
(*   db             the committed tables of the SQLite file                 *)
(*   lock           the caller whose connection holds the write lock        *)
(*   tx[c]          the tables as caller c's open transaction sees them     *)
(*   pc[c], args[c] where caller c stands in a Database / AuthManager call  *)
(*                  and the arguments of that call                          *)
(*   session_state  st.session_state of each caller (browser session)       *)
(*   result         what the AuthManager call that ended last gave back     *)
(*   history        the calls that returned normally so far: the forms      *)
(*                  register_user accepted, and per user id the number of   *)
(*                  save_message calls that returned                        *)
(*   now            CURRENT_TIMESTAMP                                       *)
(***************************************************************************)
VARIABLES db, lock, tx, pc, args, session_state, result, history, now

vars == <<db, lock, tx, pc, args, session_state, result, history, now>>

EmptyDb == [users |-> <<>>, chat_sessions |-> <<>>, messages |-> <<>>,
            user_analytics |-> <<>>]

NoArgs == [op |-> "none"]
NoUser == [user_id |-> GhostId]
NoResult == [op |-> "none"]
UserIdSpace == {GhostId} \cup (1..MaxUsers)
NoHistory == [registered |-> {}, appends |-> [u \in UserIdSpace |-> 0]]

\* init_session_state, and the chat_history key the script creates next to
\* it.  chat_keys are the keys of st.session_state that start with "chat_";
\* chat_history is the list under the key of that name.
InitialSessionState ==
    [authenticated |-> FALSE, user_info |-> NoUser, current_session_id |-> GhostId,
     chat_keys |-> {"chat_history"}, chat_history |-> <<>>]

Init ==
    /\ db = EmptyDb
    /\ lock = NoCaller
    /\ tx = [c \in Callers |-> EmptyDb]
    /\ pc = [c \in Callers |-> "idle"]
    /\ args = [c \in Callers |-> NoArgs]
    /\ session_state = [c \in Callers |-> InitialSessionState]
    /\ result = NoResult
    /\ history = NoHistory
    /\ now = 1

(***************************************************************************)
(* SQLite: the write lock and the constraints of the schema.                *)
(***************************************************************************)
\* Writers that do not exclude each other.
CanWriteUnlocked(c) == TRUE

\* A connection may start writing when no other connection holds the lock.
CanWrite(c) == lock = NoCaller

Rows(table) == {table[i] : i \in 1..Len(table)}

\* The users table without UNIQUE on email.
UsersConstraintsNoEmail(t, f) ==
    /\ \A r \in Rows(t.users) : r.username # f.username
    /\ f.role \in {"student", "faculty"}

\* users: username UNIQUE, email UNIQUE (BINARY collation: exact match),
\* role CHECK(role IN ('student', 'faculty')).
UsersConstraintsHold(t, f) ==
    /\ \A r \in Rows(t.users) : r.username # f.username
    /\ \A r \in Rows(t.users) : r.email # f.email
    /\ f.role \in Roles

\* The messages table without its CHECK on message_type.
MessagesConstraintsNoCheck(t, m) == m.bot_response # NULL

\* messages: message_type CHECK(... IN ('text', 'image')), bot_response
\* NOT NULL; the FOREIGN KEY clauses are not enforced.
MessagesConstraintsHold(t, m) ==
    /\ m.message_type \in MessageTypes
    /\ m.bot_response # NULL

\* uuid4(): an identifier no row of the table carries yet.
FreshId(table) == Len(table) + 1

\* gensalt(): a salt no stored hash carries yet.
gensalt(t) == Len(t.users) + 1

OperationalError == "sqlite3.OperationalError"

Raised(op, a) == [op |-> op, args |-> a, ok |-> FALSE, message |-> OperationalError]
Returned(op, a, ok, message) == [op |-> op, args |-> a, ok |-> ok, message |-> message]

InTransaction(c) ==
    pc[c] \in {"create_user_analytics", "create_user_commit",
               "save_message_touch", "save_message_count", "save_message_commit"}

Begin(c, t, at, a) ==
    /\ lock' = c
    /\ tx' = [tx EXCEPT ![c] = t]
    /\ pc' = [pc EXCEPT ![c] = at]
    /\ args' = [args EXCEPT ![c] = a]

Step(c, t, at) ==
    /\ tx' = [tx EXCEPT ![c] = t]
    /\ pc' = [pc EXCEPT ![c] = at]
    /\ UNCHANGED <<db, lock, args, session_state, result, history, now>>

\* conn.commit(); conn.close()
Commit(c) ==
    /\ db' = tx[c]
    /\ lock' = NoCaller
    /\ tx' = [tx EXCEPT ![c] = EmptyDb]
    /\ pc' = [pc EXCEPT ![c] = "idle"]
    /\ args' = [args EXCEPT ![c] = NoArgs]

(***************************************************************************)
(* AuthManager.register_user and Database.create_user.                     *)
(***************************************************************************)
UserRow(t, f) ==
    [user_id |-> FreshId(t.users), username |-> f.username, email |-> f.email,
     password_hash |-> hashpw(f.password, gensalt(t)), role |-> f.role,
     full_name |-> f.full_name, department |-> f.department,
     last_login |-> NullTs, is_active |-> TRUE]

AnalyticsRow(user_id) ==
    [user_id |-> user_id, total_queries |-> 0, text_queries |-> 0,
     image_queries |-> 0, last_query_date |-> NullTs]

\* The validation of register_user rejects the form.
register_user_invalid(c, f) ==
    /\ pc[c] = "idle"
    /\ ValidationError(f) # NULL
    /\ result' = Returned("register_user", f, FALSE, ValidationError(f))
    /\ UNCHANGED <<db, lock, tx, pc, args, session_state, history, now>>

\* create_user: INSERT INTO users raises IntegrityError, which create_user
\* turns into False after closing the connection.
register_user_duplicate(c, f) ==
    /\ pc[c] = "idle"
    /\ ValidationError(f) = NULL
    /\ CanWrite(c)
    /\ ~UsersConstraintsHold(db, f)
    /\ result' = Returned("register_user", f, FALSE, MsgDuplicate)
    /\ UNCHANGED <<db, lock, tx, pc, args, session_state, history, now>>

\* create_user on a connection in autocommit mode: the users row is
\* committed by its INSERT.
register_user_insert_autocommit(c, f) ==
    /\ pc[c] = "idle"
    /\ ValidationError(f) = NULL
    /\ CanWrite(c)
    /\ UsersConstraintsHold(db, f)
    /\ Len(db.users) < MaxUsers
    /\ db' = [db EXCEPT !.users = Append(@, UserRow(db, f))]
    /\ Begin(c, [db EXCEPT !.users = Append(@, UserRow(db, f))],
             "create_user_analytics", [op |-> "register_user", form |-> f])
    /\ UNCHANGED <<session_state, result, history, now>>

\* create_user: INSERT INTO users goes through; the transaction is open.
register_user_insert(c, f) ==
    /\ pc[c] = "idle"
    /\ ValidationError(f) = NULL
    /\ CanWrite(c)
    /\ UsersConstraintsHold(db, f)
    /\ Len(db.users) < MaxUsers
    /\ Begin(c, [db EXCEPT !.users = Append(@, UserRow(db, f))],
             "create_user_analytics", [op |-> "register_user", form |-> f])
    /\ UNCHANGED <<db, session_state, result, history, now>>

\* create_user: another connection holds the write lock past the busy
\* timeout; the OperationalError leaves create_user and register_user.
register_user_locked(c, f) ==
    /\ pc[c] = "idle"
    /\ ValidationError(f) = NULL
    /\ ~CanWrite(c)
    /\ result' = Raised("register_user", f)
    /\ UNCHANGED <<db, lock, tx, pc, args, session_state, history, now>>

\* create_user: INSERT INTO user_analytics (user_id) VALUES (?)
create_user_analytics(c) ==
    /\ pc[c] = "create_user_analytics"
    /\ Step(c, [tx[c] EXCEPT !.user_analytics =
                    Append(@, AnalyticsRow(tx[c].users[Len(tx[c].users)].user_id))],
            "create_user_commit")

\* create_user: conn.commit(); return True
create_user_commit(c) ==
    /\ pc[c] = "create_user_commit"
    /\ Commit(c)
    /\ result' = Returned("register_user", args[c].form, TRUE, MsgRegistered)
    /\ history' = [history EXCEPT !.registered = @ \cup {args[c].form}]
    /\ UNCHANGED <<session_state, now>>

\* A statement or the commit of an open transaction fails (storage fault):
\* the exception leaves the method, the connection is dropped uncommitted
\* and SQLite rolls the transaction back.
Abort(c) ==
    /\ InTransaction(c)
    /\ lock' = NoCaller
    /\ tx' = [tx EXCEPT ![c] = EmptyDb]
    /\ pc' = [pc EXCEPT ![c] = "idle"]
    /\ args' = [args EXCEPT ![c] = NoArgs]
    /\ result' = IF args[c].op = "register_user"
                    THEN Raised("register_user", args[c].form)
                    ELSE result
    /\ UNCHANGED <<db, session_state, history, now>>

\* CURRENT_TIMESTAMP moves on.
Tick ==
    /\ now < 1 + MaxTicks
    /\ now' = now + 1
    /\ UNCHANGED <<db, lock, tx, pc, args, session_state, result, history>>

(***************************************************************************)
(* AuthManager.login_user: Database.authenticate_user (a SELECT, then       *)
(* update_last_login on a connection of its own), then                      *)
(* Database.create_chat_session.  The login form is rendered only for a    *)
(* caller that is not authenticated (main).                                 *)
(***************************************************************************)
\* SELECT ... FROM users WHERE username = ?; fetchone()
UsersNamed(t, username) == {i \in 1..Len(t.users) : t.users[i].username = username}

FirstOf(S) == CHOOSE i \in S : \A j \in S : i <= j

\* A condition that does not look at is_active.
AuthenticatesAnyAccount(t, username, password) ==
    /\ UsersNamed(t, username) # {}
    /\ checkpw(password, t.users[FirstOf(UsersNamed(t, username))].password_hash)

\* authenticate_user's condition: the row exists, is active, and the
\* password verifies.
Authenticates(t, username, password) ==
    /\ UsersNamed(t, username) # {}
    /\ t.users[FirstOf(UsersNamed(t, username))].is_active
    /\ checkpw(password, t.users[FirstOf(UsersNamed(t, username))].password_hash)

\* A dictionary that carries the whole row.
UserInfoWithHash(user) ==
    [user_id |-> user.user_id, username |-> user.username, email |-> user.email,
     password_hash |-> user.password_hash, role |-> user.role,
     full_name |-> user.full_name, department |-> user.department]

\* The dictionary authenticate_user returns.
UserInfo(user) ==
    [user_id |-> user.user_id, username |-> user.username, email |-> user.email,
     role |-> user.role, full_name |-> user.full_name,
     department |-> user.department]

LoginArgs(username, password) == [username |-> username, password |-> password]

\* login_user: "if not username or not password"
login_user_empty(c, username, password) ==
    /\ pc[c] = "idle"
    /\ ~session_state[c].authenticated
    /\ username = <<>> \/ password = <<>>
    /\ result' = Returned("login_user", LoginArgs(username, password), FALSE, MsgEnterBoth)
    /\ UNCHANGED <<db, lock, tx, pc, args, session_state, history, now>>

\* A login that tells an unknown username from a wrong password.
login_user_rejected_distinct(c, username, password) ==
    /\ pc[c] = "idle"
    /\ ~session_state[c].authenticated
    /\ username # <<>> /\ password # <<>>
    /\ ~Authenticates(db, username, password)
    /\ result' = Returned("login_user", LoginArgs(username, password), FALSE,
                          IF UsersNamed(db, username) = {}
                              THEN "Unknown username" ELSE MsgInvalidLogin)
    /\ UNCHANGED <<db, lock, tx, pc, args, session_state, history, now>>

\* authenticate_user returns None.
login_user_rejected(c, username, password) ==
    /\ pc[c] = "idle"
    /\ ~session_state[c].authenticated
    /\ username # <<>> /\ password # <<>>
    /\ ~Authenticates(db, username, password)
    /\ result' = Returned("login_user", LoginArgs(username, password), FALSE,
                          MsgInvalidLogin)
    /\ UNCHANGED <<db, lock, tx, pc, args, session_state, history, now>>

\* authenticate_user finds the user and goes on to update_last_login.
login_user_accepted(c, username, password) ==
    /\ pc[c] = "idle"
    /\ ~session_state[c].authenticated
    /\ username # <<>> /\ password # <<>>
    /\ Authenticates(db, username, password)
    /\ Len(db.chat_sessions) < MaxSessions
    /\ pc' = [pc EXCEPT ![c] = "update_last_login"]
    /\ args' = [args EXCEPT ![c] =
                  [op |-> "login_user", username |-> username, password |-> password,
                   user_info |-> UserInfo(db.users[FirstOf(UsersNamed(db, username))])]]
    /\ UNCHANGED <<db, lock, tx, session_state, result, history, now>>

SetLastLogin(t, user_id, ts) ==
    [t EXCEPT !.users =
        [i \in 1..Len(t.users) |->
            IF t.users[i].user_id = user_id
                THEN [t.users[i] EXCEPT !.last_login = ts]
                ELSE t.users[i]]]

\* update_last_login commits; authenticate_user returns the dictionary and
\* login_user sets authenticated and user_info.
update_last_login(c) ==
    /\ pc[c] = "update_last_login"
    /\ CanWrite(c)
    /\ db' = SetLastLogin(db, args[c].user_info.user_id, now)
    /\ session_state' = [session_state EXCEPT ![c].authenticated = TRUE,
                                              ![c].user_info = args[c].user_info]
    /\ pc' = [pc EXCEPT ![c] = "login_create_chat_session"]
    /\ UNCHANGED <<lock, tx, args, result, history, now>>

\* update_last_login meets a locked database: the exception leaves
\* authenticate_user and login_user.
update_last_login_locked(c) ==
    /\ pc[c] = "update_last_login"
    /\ ~CanWrite(c)
    /\ pc' = [pc EXCEPT ![c] = "idle"]
    /\ args' = [args EXCEPT ![c] = NoArgs]
    /\ result' = Raised("login_user", LoginArgs(args[c].username, args[c].password))
    /\ UNCHANGED <<db, lock, tx, session_state, history, now>>

\* A session row that carries no owner.
SessionRowUnowned(t, user_id, ts) ==
    [session_id |-> FreshId(t.chat_sessions), user_id |-> GhostId,
     last_activity |-> ts]

SessionRow(t, user_id, ts) ==
    [session_id |-> FreshId(t.chat_sessions), user_id |-> user_id,
     last_activity |-> ts]

\* INSERT INTO chat_sessions (session_id, user_id) VALUES (?, ?); commit
InsertSession(t, user_id, ts) ==
    [t EXCEPT !.chat_sessions = Append(@, SessionRow(t, user_id, ts))]

\* login_user: current_session_id = create_chat_session(user_id); return
login_create_chat_session(c) ==
    /\ pc[c] = "login_create_chat_session"
    /\ CanWrite(c)
    /\ Len(db.chat_sessions) < MaxSessions
    /\ db' = InsertSession(db, args[c].user_info.user_id, now)
    /\ session_state' = [session_state EXCEPT ![c].current_session_id =
                            FreshId(db.chat_sessions)]
    /\ pc' = [pc EXCEPT ![c] = "idle"]
    /\ args' = [args EXCEPT ![c] = NoArgs]
    /\ result' = Returned("login_user", LoginArgs(args[c].username, args[c].password),
                          TRUE, MsgWelcome)
    /\ UNCHANGED <<lock, tx, history, now>>

\* create_chat_session meets a locked database: the exception leaves
\* login_user after authenticated and user_info were set.
login_create_chat_session_locked(c) ==
    /\ pc[c] = "login_create_chat_session"
    /\ ~CanWrite(c)
    /\ pc' = [pc EXCEPT ![c] = "idle"]
    /\ args' = [args EXCEPT ![c] = NoArgs]
    /\ result' = Raised("login_user", LoginArgs(args[c].username, args[c].password))
    /\ UNCHANGED <<db, lock, tx, session_state, history, now>>

\* A logout that leaves the session identifier in place.
logout_user_keeps_session(c) ==
    /\ pc[c] = "idle"
    /\ session_state[c].authenticated
    /\ session_state' = [session_state EXCEPT ![c].authenticated = FALSE,
                                              ![c].user_info = NoUser,
                                              ![c].chat_keys = {},
                                              ![c].chat_history = <<>>]
    /\ UNCHANGED <<db, lock, tx, pc, args, result, history, now>>

\* logout_user: the three keys are reset and every key that starts with
\* "chat_" (chat_history) is deleted.
logout_user(c) ==
    /\ pc[c] = "idle"
    /\ session_state[c].authenticated
    /\ session_state' = [session_state EXCEPT ![c].authenticated = FALSE,
                                              ![c].user_info = NoUser,
                                              ![c].current_session_id = GhostId,
                                              ![c].chat_keys = {},
                                              ![c].chat_history = <<>>]
    /\ UNCHANGED <<db, lock, tx, pc, args, result, history, now>>

\* An administrator deactivates an account: the active flag is flipped in
\* the users table, outside this program.
Deactivate(user_id) ==
    /\ lock = NoCaller
    /\ \E i \in 1..Len(db.users) : db.users[i].user_id = user_id /\ db.users[i].is_active
    /\ db' = [db EXCEPT !.users =
                [i \in 1..Len(db.users) |->
                    IF db.users[i].user_id = user_id
                        THEN [db.users[i] EXCEPT !.is_active = FALSE]
                        ELSE db.users[i]]]
    /\ UNCHANGED <<lock, tx, pc, args, session_state, result, history, now>>

(***************************************************************************)
(* Database.create_chat_session and Database.save_message, called with     *)
(* any arguments.                                                           *)
(***************************************************************************)
create_chat_session(c, user_id) ==
    /\ pc[c] = "idle"
    /\ CanWrite(c)
    /\ Len(db.chat_sessions) < MaxSessions
    /\ db' = InsertSession(db, user_id, now)
    /\ UNCHANGED <<lock, tx, pc, args, session_state, result, history, now>>

MessageInput(type, user_message, image_path, bot_response) ==
    [message_type |-> type, user_message |-> user_message,
     image_path |-> image_path, bot_response |-> bot_response]

TextQuery == MessageInput("text", "explain X", NULL, "X is...")
ImageQuery == MessageInput("image", "Image analysis request", "diagram.png", "This shows...")
TextNoMessage == MessageInput("text", NULL, NULL, "X is...")
ImageNoResponse == MessageInput("image", "explain X", "diagram.png", "")
AudioQuery == MessageInput("audio", "explain X", NULL, "X is...")
NullResponse == MessageInput("text", "explain X", NULL, NULL)

MessageRow(t, session_id, user_id, m, ts) ==
    [message_id |-> FreshId(t.messages), session_id |-> session_id,
     user_id |-> user_id, message_type |-> m.message_type,
     user_message |-> m.user_message, image_path |-> m.image_path,
     bot_response |-> m.bot_response, timestamp |-> ts]

SaveArgs(session_id, user_id, m) ==
    [op |-> "save_message", session_id |-> session_id, user_id |-> user_id,
     message |-> m]

\* INSERT INTO messages goes through; the transaction is open.
save_message_insert(c, session_id, user_id, m) ==
    /\ pc[c] = "idle"
    /\ CanWrite(c)
    /\ MessagesConstraintsHold(db, m)
    /\ Len(db.messages) < MaxMsgs
    /\ Begin(c, [db EXCEPT !.messages = Append(@, MessageRow(db, session_id, user_id, m, now))],
             "save_message_touch", SaveArgs(session_id, user_id, m))
    /\ UNCHANGED <<db, session_state, result, history, now>>

\* INSERT INTO messages raises IntegrityError (CHECK or NOT NULL), or the
\* database is locked: the exception leaves save_message, nothing is kept.
save_message_raises(c, session_id, user_id, m) ==
    /\ pc[c] = "idle"
    /\ ~CanWrite(c) \/ ~MessagesConstraintsHold(db, m)
    /\ UNCHANGED vars

IntegrityError == "sqlite3.IntegrityError"

\* A messages table that takes the row whatever its type.
save_message_accepted(c, session_id, user_id, m) ==
    /\ pc[c] = "idle"
    /\ CanWrite(c)
    /\ ~MessagesConstraintsHold(db, m)
    /\ Len(db.messages) < MaxMsgs
    /\ Begin(c, [db EXCEPT !.messages = Append(@, MessageRow(db, session_id, user_id, m, now))],
             "save_message_touch", SaveArgs(session_id, user_id, m))
    /\ UNCHANGED <<db, session_state, result, history, now>>

\* INSERT INTO messages raises IntegrityError (CHECK or NOT NULL): the
\* statement is undone and the exception leaves save_message before
\* commit() and close().  The connection has begun its transaction and
\* keeps the write lock until it is collected.
save_message_rejected(c, session_id, user_id, m) ==
    /\ pc[c] = "idle"
    /\ CanWrite(c)
    /\ ~MessagesConstraintsHold(db, m)
    /\ Begin(c, db, "save_message_raised", SaveArgs(session_id, user_id, m))
    /\ result' = Returned("save_message", SaveArgs(session_id, user_id, m), FALSE,
                          IntegrityError)
    /\ UNCHANGED <<db, session_state, history, now>>

\* The connection a raised save_message left behind is collected: SQLite
\* rolls its transaction back and frees the lock.
save_message_collected(c) ==
    /\ pc[c] = "save_message_raised"
    /\ lock' = NoCaller
    /\ tx' = [tx EXCEPT ![c] = EmptyDb]
    /\ pc' = [pc EXCEPT ![c] = "idle"]
    /\ args' = [args EXCEPT ![c] = NoArgs]
    /\ UNCHANGED <<db, session_state, result, history, now>>

\* INSERT INTO messages waits for the write lock in vain: "database is
\* locked" leaves save_message, nothing was written.
save_message_locked(c, session_id, user_id, m) ==
    /\ pc[c] = "idle"
    /\ ~CanWrite(c)
    /\ result' = Raised("save_message", SaveArgs(session_id, user_id, m))
    /\ UNCHANGED <<db, lock, tx, pc, args, session_state, history, now>>

\* A save_message that leaves last_activity alone.
TouchSessionNever(t, session_id, ts) == t

\* UPDATE chat_sessions SET last_activity = CURRENT_TIMESTAMP WHERE session_id = ?
TouchSession(t, session_id, ts) ==
    [t EXCEPT !.chat_sessions =
        [i \in 1..Len(t.chat_sessions) |->
            IF t.chat_sessions[i].session_id = session_id
                THEN [t.chat_sessions[i] EXCEPT !.last_activity = ts]
                ELSE t.chat_sessions[i]]]

save_message_touch(c) ==
    /\ pc[c] = "save_message_touch"
    /\ Step(c, TouchSession(tx[c], args[c].session_id, now), "save_message_count")

\* An update that counts every query as a text query.
CountQueryAsText(row, type, ts) ==
    [row EXCEPT !.total_queries = @ + 1,
                !.text_queries = @ + 1,
                !.last_query_date = ts]

\* UPDATE user_analytics SET total_queries = total_queries + 1, ... WHERE user_id = ?
CountQuery(row, type, ts) ==
    [row EXCEPT !.total_queries = @ + 1,
                !.text_queries = @ + (IF type = "text" THEN 1 ELSE 0),
                !.image_queries = @ + (IF type = "image" THEN 1 ELSE 0),
                !.last_query_date = ts]

\* A save_message without the UPDATE of user_analytics.
RecordQuerySkipped(t, user_id, type, ts) == t

RecordQuery(t, user_id, type, ts) ==
    [t EXCEPT !.user_analytics =
        [i \in 1..Len(t.user_analytics) |->
            IF t.user_analytics[i].user_id = user_id
                THEN CountQuery(t.user_analytics[i], type, ts)
                ELSE t.user_analytics[i]]]

save_message_count(c) ==
    /\ pc[c] = "save_message_count"
    /\ Step(c, RecordQuery(tx[c], args[c].user_id, args[c].message.message_type, now),
            "save_message_commit")

\* conn.commit(); conn.close()
save_message_commit(c) ==
    /\ pc[c] = "save_message_commit"
    /\ Commit(c)
    /\ history' = [history EXCEPT !.appends[args[c].user_id] = @ + 1]
    /\ UNCHANGED <<session_state, result, now>>

(***************************************************************************)
(* Database.get_chat_history.  The SELECT joins each message to the        *)
(* chat_sessions row of its session_id, keeps the messages of the user,    *)
(* orders them by m.timestamp DESC and cuts after LIMIT rows.  The ORDER   *)
(* BY names no second key: SQLite leaves the order of rows with equal      *)
(* timestamps undefined, so any order of them is a possible answer.        *)
(* CURRENT_TIMESTAMP has a resolution of one second.                       *)
(***************************************************************************)
Min(a, b) == IF a <= b THEN a ELSE b

\* FROM messages m JOIN chat_sessions cs ON m.session_id = cs.session_id
\* WHERE m.user_id = ?
Selected(t, user_id) ==
    {i \in 1..Len(t.messages) :
        /\ t.messages[i].user_id = user_id
        /\ t.messages[i].session_id \in
                {t.chat_sessions[j].session_id : j \in 1..Len(t.chat_sessions)}}

\* The orders in which the rows S of a table can be listed.
Orderings(S) ==
    {o \in [1..Cardinality(S) -> S] :
        \A i, j \in 1..Cardinality(S) : i # j => o[i] # o[j]}

\* ORDER BY m.timestamp DESC
TimestampDescending(t, o) ==
    \A i, j \in DOMAIN o :
        i < j => t.messages[o[i]].timestamp >= t.messages[o[j]].timestamp

\* The dictionary get_chat_history builds of a row.
HistoryEntry(m) ==
    [message_type |-> m.message_type, user_message |-> m.user_message,
     image_path |-> m.image_path, bot_response |-> m.bot_response,
     timestamp |-> m.timestamp]

Answered(op, a, rows) == [op |-> op, args |-> a, ok |-> TRUE, rows |-> rows]

HistoryArgs(user_id, limit) == [user_id |-> user_id, limit |-> limit]

get_chat_history(c, user_id, limit) ==
    /\ pc[c] = "idle"
    /\ \E o \in Orderings(Selected(db, user_id)) :
        /\ TimestampDescending(db, o)
        /\ result' = Answered("get_chat_history", HistoryArgs(user_id, limit),
                              [i \in 1..Min(limit, Len(o)) |->
                                    HistoryEntry(db.messages[o[i]])])
    /\ UNCHANGED <<db, lock, tx, pc, args, session_state, history, now>>

(***************************************************************************)
(* Database.get_all_users_analytics.  Every active users row is joined     *)
(* (LEFT JOIN) to the user_analytics rows of its user_id, or to one row of *)
(* NULLs when there is none; the rows are ordered by ua.total_queries DESC *)
(* (NULL sorts last) with no second key, so rows with equal totals can     *)
(* come in any order.                                                       *)
(***************************************************************************)
\* A joined row <<i, j>>: users row i with user_analytics row j, j = 0 for
\* the row of NULLs.
Joined(t) ==
    {p \in (1..Len(t.users)) \X (0..Len(t.user_analytics)) :
        /\ t.users[p[1]].is_active
        /\ IF p[2] = 0
              THEN \A j \in 1..Len(t.user_analytics) :
                        t.user_analytics[j].user_id # t.users[p[1]].user_id
              ELSE t.user_analytics[p[2]].user_id = t.users[p[1]].user_id}

\* The rank of ua.total_queries in the sort: NULL below every number.
TotalRank(t, p) == IF p[2] = 0 THEN 0 ELSE t.user_analytics[p[2]].total_queries + 1

\* ORDER BY ua.total_queries DESC
TotalDescending(t, o) ==
    \A i, j \in DOMAIN o : i < j => TotalRank(t, o[i]) >= TotalRank(t, o[j])

\* The dictionary get_all_users_analytics builds of a joined row
\* ("row[5] or 0").
SnapshotEntry(t, p) ==
    [username |-> t.users[p[1]].username, full_name |-> t.users[p[1]].full_name,
     role |-> t.users[p[1]].role, department |-> t.users[p[1]].department,
     total_queries |-> IF p[2] = 0 THEN 0 ELSE t.user_analytics[p[2]].total_queries,
     text_queries |-> IF p[2] = 0 THEN 0 ELSE t.user_analytics[p[2]].text_queries,
     image_queries |-> IF p[2] = 0 THEN 0 ELSE t.user_analytics[p[2]].image_queries,
     last_query_date |-> IF p[2] = 0 THEN NullTs
                                     ELSE t.user_analytics[p[2]].last_query_date]

get_all_users_analytics(c) ==
    /\ pc[c] = "idle"
    /\ \E o \in Orderings(Joined(db)) :
        /\ TotalDescending(db, o)
        /\ result' = Answered("get_all_users_analytics", [caller |-> c],
                              [i \in DOMAIN o |-> SnapshotEntry(db, o[i])])
    /\ UNCHANGED <<db, lock, tx, pc, args, session_state, history, now>>

(***************************************************************************)
(* Database.get_user_analytics: the counters of the first user_analytics   *)
(* row of the user, or a dictionary of zeros when fetchone() finds none.   *)
(***************************************************************************)
Counters(total, text, image, last) ==
    [total_queries |-> total, text_queries |-> text, image_queries |-> image,
     last_query_date |-> last]

\* "if result: return {...}" and the return of zeros after it.
UserAnalytics(t, user_id) ==
    IF \E i \in 1..Len(t.user_analytics) : t.user_analytics[i].user_id = user_id
        THEN LET row == t.user_analytics[
                          CHOOSE i \in 1..Len(t.user_analytics) :
                              /\ t.user_analytics[i].user_id = user_id
                              /\ \A j \in 1..Len(t.user_analytics) :
                                    t.user_analytics[j].user_id = user_id => i <= j]
             IN  Counters(row.total_queries, row.text_queries, row.image_queries,
                          row.last_query_date)
        ELSE Counters(0, 0, 0, NullTs)

get_user_analytics(c, user_id) ==
    /\ pc[c] = "idle"
    /\ result' = Answered("get_user_analytics", [user_id |-> user_id],
                          UserAnalytics(db, user_id))
    /\ UNCHANGED <<db, lock, tx, pc, args, session_state, history, now>>

(***************************************************************************)
(* The pages of the portal (app.py).  main renders the dashboard only for  *)
(* an authenticated caller; every run of the script first re-creates a     *)
(* missing chat_history key as the empty list.                              *)
(***************************************************************************)
\* "if 'chat_history' not in st.session_state: st.session_state.chat_history = []"
ChatHistory(c) ==
    IF "chat_history" \in session_state[c].chat_keys
        THEN session_state[c].chat_history
        ELSE <<>>

\* The "New Chat Session" button.
new_chat_session(c) ==
    /\ pc[c] = "idle"
    /\ session_state[c].authenticated
    /\ CanWrite(c)
    /\ Len(db.chat_sessions) < MaxSessions
    /\ db' = InsertSession(db, session_state[c].user_info.user_id, now)
    /\ session_state' = [session_state EXCEPT ![c].chat_keys = {"chat_history"},
                                              ![c].chat_history = <<>>,
                                              ![c].current_session_id =
                                                    FreshId(db.chat_sessions)]
    /\ UNCHANGED <<lock, tx, pc, args, result, history, now>>

\* The button meets a locked database: chat_history was emptied, then
\* create_chat_session raises.
new_chat_session_locked(c) ==
    /\ pc[c] = "idle"
    /\ session_state[c].authenticated
    /\ ~CanWrite(c)
    /\ session_state' = [session_state EXCEPT ![c].chat_keys = {"chat_history"},
                                              ![c].chat_history = <<>>]
    /\ UNCHANGED <<db, lock, tx, pc, args, result, history, now>>

ChatEntry(role, content) == [role |-> role, content |-> content]

\* chat_history after process_text_query appended the query and the reply.
Chatted(c, m) ==
    [session_state EXCEPT
        ![c].chat_keys = {"chat_history"},
        ![c].chat_history =
            ChatHistory(c) \o <<ChatEntry("user", m.user_message),
                                ChatEntry("assistant", m.bot_response)>>]

\* process_text_query: the query and the reply join chat_history, then
\* save_message starts under the caller's session and user.
process_text_query_save(c, m) ==
    /\ pc[c] = "idle"
    /\ session_state[c].authenticated
    /\ session_state[c].current_session_id # GhostId
    /\ CanWrite(c)
    /\ MessagesConstraintsHold(db, m)
    /\ Len(db.messages) < MaxMsgs
    /\ session_state' = Chatted(c, m)
    /\ Begin(c, [db EXCEPT !.messages =
                    Append(@, MessageRow(db, session_state[c].current_session_id,
                                         session_state[c].user_info.user_id, m, now))],
             "save_message_touch",
             SaveArgs(session_state[c].current_session_id,
                      session_state[c].user_info.user_id, m))
    /\ UNCHANGED <<db, result, history, now>>

\* process_text_query without a current session ("if session_id:"), or with
\* save_message raising on a locked database: chat_history alone changes.
process_text_query_unsaved(c, m) ==
    /\ pc[c] = "idle"
    /\ session_state[c].authenticated
    /\ session_state[c].current_session_id = GhostId \/ ~CanWrite(c)
    /\ Len(ChatHistory(c)) < 2 * MaxMsgs
    /\ session_state' = Chatted(c, m)
    /\ UNCHANGED <<db, lock, tx, pc, args, result, history, now>>

process_text_query(c, m) ==
    \/ process_text_query_save(c, m)
    \/ process_text_query_unsaved(c, m)

(***************************************************************************)
(* GeminiAPI.generate_text_response / generate_image_response: the text of *)
(* the model and True, or a fixed apology and False when the model gave no *)
(* text (an exception of the model ends the same way, with another         *)
(* apology).  raw is what the model gave, "" for nothing.                   *)
(***************************************************************************)
MsgNoTextResponse ==
    "I apologize, but I couldn't generate a response. Please try rephrasing your question."
MsgNoImageResponse ==
    "I couldn't analyze this image. Please ensure it's clear and try again."

generate_text_response(raw) ==
    IF raw # "" THEN <<raw, TRUE>> ELSE <<MsgNoTextResponse, FALSE>>

generate_image_response(raw) ==
    IF raw # "" THEN <<raw, TRUE>> ELSE <<MsgNoImageResponse, FALSE>>

\* What process_text_query hands to save_message: the reply, whatever the
\* success flag says.
TextRoundTrip(raw) ==
    MessageInput("text", "explain X", NULL, generate_text_response(raw)[1])

\* What render_image_analysis hands to save_message ("if success:").
ImageRoundTrip(raw) ==
    MessageInput("image", "Image analysis request", "diagram.png",
                 generate_image_response(raw)[1])

\* render_image_analysis: the generation succeeded and save_message starts
\* under the caller's session and user.
render_image_analysis_save(c, raw) ==
    /\ pc[c] = "idle"
    /\ session_state[c].authenticated
    /\ generate_image_response(raw)[2]
    /\ session_state[c].current_session_id # GhostId
    /\ CanWrite(c)
    /\ MessagesConstraintsHold(db, ImageRoundTrip(raw))
    /\ Len(db.messages) < MaxMsgs
    /\ Begin(c, [db EXCEPT !.messages =
                    Append(@, MessageRow(db, session_state[c].current_session_id,
                                         session_state[c].user_info.user_id,
                                         ImageRoundTrip(raw), now))],
             "save_message_touch",
             SaveArgs(session_state[c].current_session_id,
                      session_state[c].user_info.user_id, ImageRoundTrip(raw)))
    /\ UNCHANGED <<db, session_state, result, history, now>>

\* render_image_analysis: the generation failed, or there is no current
\* session, or save_message raises on a locked database: nothing is kept.
render_image_analysis_unsaved(c, raw) ==
    /\ pc[c] = "idle"
    /\ session_state[c].authenticated
    /\ \/ ~generate_image_response(raw)[2]
       \/ session_state[c].current_session_id = GhostId
       \/ ~CanWrite(c)
    /\ UNCHANGED vars

render_image_analysis(c, raw) ==
    \/ render_image_analysis_save(c, raw)
    \/ render_image_analysis_unsaved(c, raw)

MsgPleaseLogIn == "Please log in to access this feature"
MsgOnlyFor(required_role) ==
    "This feature is only available for " \o required_role \o "s"

RoleArgs(c, required_role) == [caller |-> c, required_role |-> required_role]

\* A gate that asks for authentication alone.
require_role_any(c, required_role) ==
    /\ pc[c] = "idle"
    /\ result' =
        IF ~session_state[c].authenticated
            THEN Returned("require_role", RoleArgs(c, required_role), FALSE, MsgPleaseLogIn)
            ELSE Returned("require_role", RoleArgs(c, required_role), TRUE, NULL)
    /\ UNCHANGED <<db, lock, tx, pc, args, session_state, history, now>>

\* require_role: require_auth stops a caller that is not authenticated;
\* "if user and user['role'] != required_role" stops the wrong role; the
\* call returns otherwise.  ok is FALSE when st.stop() ended the run.
require_role(c, required_role) ==
    /\ pc[c] = "idle"
    /\ result' =
        IF ~session_state[c].authenticated
            THEN Returned("require_role", RoleArgs(c, required_role), FALSE, MsgPleaseLogIn)
        ELSE IF /\ session_state[c].user_info # NoUser
                /\ session_state[c].user_info.role # required_role
            THEN Returned("require_role", RoleArgs(c, required_role), FALSE,
                          MsgOnlyFor(required_role))
        ELSE Returned("require_role", RoleArgs(c, required_role), TRUE, NULL)
    /\ UNCHANGED <<db, lock, tx, pc, args, session_state, history, now>>

\* A dashboard that shows the analytics tab to every authenticated caller.
render_analytics_dashboard_any(c) ==
    /\ session_state[c].authenticated
    /\ get_all_users_analytics(c)

\* main / render_dashboard: render_analytics_dashboard runs for an
\* authenticated caller whose user_info carries the role faculty.
render_analytics_dashboard(c) ==
    /\ session_state[c].authenticated
    /\ session_state[c].user_info.role = "faculty"
    /\ get_all_users_analytics(c)

(***************************************************************************)
(* Specifications.                                                          *)
(***************************************************************************)
\* register_user with a form that passes its validation.
register_user_valid(c, f) ==
    \/ register_user_duplicate(c, f)
    \/ register_user_insert(c, f)
    \/ register_user_locked(c, f)

register_user(c, f) ==
    \/ register_user_invalid(c, f)
    \/ register_user_valid(c, f)

create_user(c) ==
    \/ create_user_analytics(c)
    \/ create_user_commit(c)

login_user(c, username, password) ==
    \/ login_user_empty(c, username, password)
    \/ login_user_rejected(c, username, password)
    \/ login_user_accepted(c, username, password)

authenticated_login(c) ==
    \/ update_last_login(c)
    \/ update_last_login_locked(c)
    \/ login_create_chat_session(c)
    \/ login_create_chat_session_locked(c)

save_message(c) ==
    \/ save_message_touch(c)
    \/ save_message_count(c)
    \/ save_message_commit(c)

UserIds(t) == {t.users[i].user_id : i \in 1..Len(t.users)}
SessionIds(t) == {t.chat_sessions[i].session_id : i \in 1..Len(t.chat_sessions)}

\* Registration: every form, from every caller.
Next ==
    \/ \E c \in Callers, f \in Forms : register_user(c, f)
    \/ \E c \in Callers : create_user(c)
    \/ \E c \in Callers : Abort(c)

Spec == Init /\ [][Next]_vars

\* Login: two accounts, every login, logout, deactivation.
LoginNext ==
    \/ \E c \in Callers, f \in {FormA, FormD} : register_user_valid(c, f)
    \/ \E c \in Callers : create_user(c)
    \/ \E c \in Callers, u \in LoginNames, p \in LoginPasswords : login_user(c, u, p)
    \/ \E c \in Callers : authenticated_login(c)
    \/ \E c \in Callers : logout_user(c)
    \/ \E u \in UserIds(db) : Deactivate(u)

LoginSpec == Init /\ [][LoginNext]_vars

Owner(t, session_id) ==
    t.chat_sessions[CHOOSE i \in 1..Len(t.chat_sessions) :
                        t.chat_sessions[i].session_id = session_id].user_id

\* The message ledger as the pages use it: a message goes to a registered
\* session under the user that session belongs to.
LedgerNext ==
    \/ \E c \in Callers, f \in {FormA, FormD} : register_user_valid(c, f)
    \/ \E c \in Callers : create_user(c)
    \/ \E c \in Callers : Abort(c)
    \/ \E c \in Callers, u \in UserIds(db) : create_chat_session(c, u)
    \/ \E c \in Callers, s \in SessionIds(db),
          m \in {TextQuery, ImageQuery, AudioQuery} :
            \/ save_message_insert(c, s, Owner(db, s), m)
            \/ save_message_raises(c, s, Owner(db, s), m)
    \/ \E c \in Callers : save_message(c)

LedgerSpec == Init /\ [][LedgerNext]_vars

\* Database.save_message called with any identifiers and any message.
ApiNext ==
    \/ \E c \in Callers, f \in {FormA, FormD} : register_user_valid(c, f)
    \/ \E c \in Callers : create_user(c)
    \/ \E c \in Callers : Abort(c)
    \/ \E c \in Callers, u \in UserIds(db) : create_chat_session(c, u)
    \/ \E c \in Callers, s \in SessionIds(db) \cup {GhostId},
          u \in UserIds(db) \cup {GhostId},
          m \in {TextQuery, TextNoMessage, ImageNoResponse} :
            save_message_insert(c, s, u, m)
    \/ \E c \in Callers, m \in {TextQuery, NullResponse} :
            save_message_raises(c, GhostId, GhostId, m)
    \/ \E c \in Callers : save_message(c)

ApiSpec == Init /\ [][ApiNext]_vars

\* The history of a user as the message ledger fills, second by second.
HistoryNext ==
    \/ \E c \in Callers, f \in {FormA, FormD} : register_user_insert(c, f)
    \/ \E c \in Callers : create_user(c)
    \/ \E c \in Callers, u \in UserIds(db) : create_chat_session(c, u)
    \/ \E c \in Callers, s \in SessionIds(db), m \in {TextQuery, ImageQuery} :
            save_message_insert(c, s, Owner(db, s), m)
    \/ \E c \in Callers : save_message(c)
    \/ Tick
    \/ \E c \in Callers, u \in UserIds(db), limit \in 0..MaxLimit :
            get_chat_history(c, u, limit)

HistorySpec == Init /\ [][HistoryNext]_vars

\* The platform snapshot over accounts that register, query and are
\* deactivated.
SnapshotNext ==
    \/ \E c \in Callers, f \in {FormA, FormD} : register_user_insert(c, f)
    \/ \E c \in Callers : create_user(c)
    \/ \E u \in UserIds(db) : Deactivate(u)
    \/ \E c \in Callers, u \in UserIds(db) : create_chat_session(c, u)
    \/ \E c \in Callers, s \in SessionIds(db) :
            save_message_insert(c, s, Owner(db, s), TextQuery)
    \/ \E c \in Callers : save_message(c)
    \/ \E c \in Callers : get_all_users_analytics(c)

SnapshotSpec == Init /\ [][SnapshotNext]_vars

\* The portal: callers log in, chat, open sessions and log out.
PortalNext ==
    \/ \E c \in Callers, f \in {FormA, FormD} : register_user_insert(c, f)
    \/ \E c \in Callers : create_user(c)
    \/ \E c \in Callers, u \in {Str_alice, Str_bob}, p \in {Str_pw1, Str_pw2} :
            login_user_rejected(c, u, p) \/ login_user_accepted(c, u, p)
    \/ \E c \in Callers : authenticated_login(c)
    \/ \E c \in Callers : logout_user(c)
    \/ \E c \in Callers : new_chat_session(c) \/ new_chat_session_locked(c)
    \/ \E c \in Callers : process_text_query(c, TextQuery)
    \/ \E c \in Callers : save_message(c)

PortalSpec == Init /\ [][PortalNext]_vars

\* The role gate and the analytics tab, for callers that log in and out as
\* a student or as faculty.
GateNext ==
    \/ \E c \in Callers, f \in {FormA, FormD} : register_user_insert(c, f)
    \/ \E c \in Callers : create_user(c)
    \/ \E c \in Callers, u \in {Str_alice, Str_bob}, p \in {Str_pw1, Str_pw2} :
            login_user_rejected(c, u, p) \/ login_user_accepted(c, u, p)
    \/ \E c \in Callers : authenticated_login(c)
    \/ \E c \in Callers : logout_user(c)
    \/ \E c \in Callers : require_role(c, "faculty")
    \/ \E c \in Callers : render_analytics_dashboard(c)

GateSpec == Init /\ [][GateNext]_vars

\* Database.create_chat_session called with any user identifier.
SessionNext ==
    \/ \E c \in Callers, f \in {FormA, FormD} : register_user_insert(c, f)
    \/ \E c \in Callers : create_user(c)
    \/ \E c \in Callers, u \in UserIds(db) \cup {GhostId} : create_chat_session(c, u)

SessionSpec == Init /\ [][SessionNext]_vars

\* Database.get_user_analytics for any user identifier, as users register
\* and query.
AnalyticsNext ==
    \/ \E c \in Callers, f \in {FormA, FormD} : register_user_insert(c, f)
    \/ \E c \in Callers : create_user(c)
    \/ \E c \in Callers, u \in UserIds(db) : create_chat_session(c, u)
    \/ \E c \in Callers, s \in SessionIds(db) :
            save_message_insert(c, s, Owner(db, s), TextQuery)
    \/ \E c \in Callers : save_message(c)
    \/ \E c \in Callers, u \in UserIds(db) \cup {GhostId} : get_user_analytics(c, u)

AnalyticsSpec == Init /\ [][AnalyticsNext]_vars

\* What the model gives: a text, or nothing.
RawReplies == {"X is...", ""}

\* Query and response round-trips of one logged-in user, with generations
\* that succeed or fail.
RoundTripNext ==
    \/ \E c \in Callers : register_user_insert(c, FormA)
    \/ \E c \in Callers : create_user(c)
    \/ \E c \in Callers : login_user_accepted(c, Str_alice, Str_pw1)
    \/ \E c \in Callers : authenticated_login(c)
    \/ \E c \in Callers, raw \in RawReplies : process_text_query(c, TextRoundTrip(raw))
    \/ \E c \in Callers, raw \in RawReplies : render_image_analysis(c, raw)
    \/ \E c \in Callers : save_message(c)

RoundTripSpec == Init /\ [][RoundTripNext]_vars

\* The caller-facing flow: login, new chat session, text query, image
\* analysis and logout, in any order.
FlowNext ==
    \/ \E c \in Callers, f \in {FormA, FormD} : register_user_insert(c, f)
    \/ \E c \in Callers : create_user(c)
    \/ \E c \in Callers, f \in {FormA, FormD} :
            login_user_accepted(c, f.username, f.password)
    \/ \E c \in Callers : authenticated_login(c)
    \/ \E c \in Callers : logout_user(c)
    \/ \E c \in Callers : new_chat_session(c) \/ new_chat_session_locked(c)
    \/ \E c \in Callers : process_text_query(c, TextRoundTrip("X is..."))
    \/ \E c \in Callers : render_image_analysis(c, "This shows...")
    \/ \E c \in Callers : save_message(c)

FlowSpec == Init /\ [][FlowNext]_vars

\* The last activity of the sessions as messages are appended, second by
\* second.
ActivityNext ==
    \/ \E c \in Callers : register_user_insert(c, FormA)
    \/ \E c \in Callers : create_user(c)
    \/ \E c \in Callers : Abort(c)
    \/ \E c \in Callers, u \in UserIds(db) : create_chat_session(c, u)
    \/ \E c \in Callers, s \in SessionIds(db) :
            save_message_insert(c, s, Owner(db, s), TextQuery)
    \/ \E c \in Callers : save_message(c)
    \/ Tick

ActivitySpec == Init /\ [][ActivityNext]_vars

\* save_message called with messages of every type, the types the schema
\* refuses included.
TypeNext ==
    \/ \E c \in Callers : register_user_insert(c, FormA)
    \/ \E c \in Callers : create_user(c)
    \/ \E c \in Callers, u \in UserIds(db) : create_chat_session(c, u)
    \/ \E c \in Callers, s \in SessionIds(db), m \in {TextQuery, ImageQuery} :
            save_message_insert(c, s, Owner(db, s), m)
    \/ \E c \in Callers, s \in SessionIds(db) :
            save_message_rejected(c, s, Owner(db, s), AudioQuery)
    \/ \E c \in Callers, s \in SessionIds(db), m \in {TextQuery, AudioQuery} :
            save_message_locked(c, s, Owner(db, s), m)
    \/ \E c \in Callers : save_message_collected(c)
    \/ \E c \in Callers : save_message(c)

TypeSpec == Init /\ [][TypeNext]_vars

(***************************************************************************)
(* Properties.                                                              *)
(***************************************************************************)
AnalyticsOf(t, user_id) ==
    {i \in 1..Len(t.user_analytics) : t.user_analytics[i].user_id = user_id}

\* C1: in every committed state, under any interleaving of save_message
\* calls of the callers, every user_analytics row has
\* total_queries = text_queries + image_queries.
TotalIsTextPlusImage ==
    \A r \in Rows(db.user_analytics) :
        r.total_queries = r.text_queries + r.image_queries

\* C1 witness: a user's row counts one text and one image query.
TotalIsTextPlusImageWitness ==
    \E r \in Rows(db.user_analytics) :
        r.total_queries = 2 /\ r.text_queries = 1 /\ r.image_queries = 1

\* C2: after N save_message calls for a registered user have returned, from
\* whichever callers and however interleaved, the user's total_queries is N
\* (it was 0 at registration): no increment is lost.
NoLostIncrement ==
    \A r \in Rows(db.user_analytics) :
        r.total_queries = history.appends[r.user_id]

\* C2 witness: two save_message calls for one user have returned.
NoLostIncrementWitness ==
    \E r \in Rows(db.user_analytics) :
        /\ history.appends[r.user_id] = 2
        /\ r.total_queries = 2

\* The three effects of one save_message call, read off a step of the
\* committed tables: the message row, the touch of its session, the count
\* for its user.
MessageInserted == Len(db'.messages) = Len(db.messages) + 1

NewMessage == db'.messages[Len(db'.messages)]

SessionTouched ==
    \E i \in 1..Len(db.chat_sessions) :
        /\ db.chat_sessions[i].session_id = NewMessage.session_id
        /\ db'.chat_sessions[i].last_activity = NewMessage.timestamp

QueryCounted ==
    \E i \in 1..Len(db.user_analytics) :
        /\ db.user_analytics[i].user_id = NewMessage.user_id
        /\ db'.user_analytics[i].total_queries = db.user_analytics[i].total_queries + 1

LedgerUntouched ==
    /\ db'.messages = db.messages
    /\ \A i \in 1..Len(db.chat_sessions) : db'.chat_sessions[i] = db.chat_sessions[i]
    /\ \A i \in 1..Len(db.user_analytics) : db'.user_analytics[i] = db.user_analytics[i]

\* C3: save_message is all-or-nothing: every step of the committed tables
\* either applies none of the three effects (message row, session
\* last_activity, user counters) or applies all three.
AppendAllOrNothing ==
    [][LedgerUntouched \/ (MessageInserted /\ SessionTouched /\ QueryCounted)]_vars

\* C9: no message row is ever stored under a session_id that is not in
\* chat_sessions: save_message with an unknown session writes nothing.
UnknownSessionWritesNothing ==
    \A m \in Rows(db.messages) : m.session_id \in SessionIds(db)

\* C10: no message row has type text with an empty or missing user_message,
\* or type image with an empty bot_response.
EmptyMessageWritesNothing ==
    \A m \in Rows(db.messages) :
        /\ ~(m.message_type = "text" /\ m.user_message \in {NULL, ""})
        /\ ~(m.message_type = "image" /\ m.bot_response = "")

\* A register_user call with form f ends in this step.
RegisterReturns(f) ==
    /\ result' # result
    /\ result'.op = "register_user"
    /\ result'.args = f

IdentityTaken(t, f) ==
    \E r \in Rows(t.users) : r.username = f.username \/ r.email = f.email

UniqueIdentity ==
    \A i, j \in 1..Len(db.users) :
        i # j => /\ db.users[i].username # db.users[j].username
                 /\ db.users[i].email # db.users[j].email

\* C4: a register call that reaches create_user with the username or the
\* email of an existing user fails, with the duplicate-identity message
\* unless the locked database raised, and adds no row; and no two users rows
\* ever share a username or an email, whatever the interleaving.
DuplicateIdentityRejected ==
    /\ []UniqueIdentity
    /\ [][\A f \in Forms :
            (RegisterReturns(f) /\ ValidationError(f) = NULL /\ IdentityTaken(db, f))
                => /\ ~result'.ok
                   /\ result'.message \in {MsgDuplicate, OperationalError}
                   /\ db' = db]_vars

\* C4 witness: a registration was turned down as a duplicate of a stored
\* user.
DuplicateIdentityRejectedWitness ==
    /\ result.op = "register_user"
    /\ result.message = MsgDuplicate
    /\ IdentityTaken(db, result.args)

\* The inputs C7 names: short username, short password, an email without
\* "@" or without ".", an empty or blank full name.
InvalidInput(f) ==
    \/ Len(f.username) < MinUsernameLen
    \/ Len(f.password) < MinPasswordLen
    \/ "@" \notin Chars(f.email)
    \/ "." \notin Chars(f.email)
    \/ \A i \in 1..Len(f.full_name) : f.full_name[i] \in Whitespace

InvalidInputMessages == {MsgShortUser, MsgShortPw, MsgMismatch, MsgBadEmail, MsgNoName}

\* C7: a register call with such an input fails with an invalid-input
\* message and leaves users and user_analytics as they were.
InvalidInputRejected ==
    [][\A f \in Forms :
        (RegisterReturns(f) /\ InvalidInput(f))
            => /\ ~result'.ok
               /\ result'.message \in InvalidInputMessages
               /\ db'.users = db.users
               /\ db'.user_analytics = db.user_analytics]_vars

\* C7 witness: the password "abc" was turned down and nothing is stored.
InvalidInputRejectedWitness ==
    /\ result = Returned("register_user", FormShortPw, FALSE, MsgShortPw)
    /\ db = EmptyDb

\* C8: in every committed state each users row has exactly one
\* user_analytics row, every user_analytics row belongs to a users row, and
\* registration creates the row with all counts zero.
OneCountersRowPerUser ==
    /\ \A r \in Rows(db.users) : Cardinality(AnalyticsOf(db, r.user_id)) = 1
    /\ \A a \in Rows(db.user_analytics) :
        /\ a.user_id \in UserIds(db)
        /\ a.total_queries = 0 /\ a.text_queries = 0 /\ a.image_queries = 0

\* C8 witness: two users are registered, each with its counters row.
OneCountersRowPerUserWitness ==
    /\ Len(db.users) = 2
    /\ Len(db.user_analytics) = 2

\* What the registration of form f promises authenticate_user returns.
Projection(f, user_id) ==
    [user_id |-> user_id, username |-> f.username, email |-> f.email,
     role |-> f.role, full_name |-> f.full_name, department |-> f.department]

\* C5: once register_user accepted a form, authenticate_user with the form's
\* username and password succeeds while the account is active, and what it
\* returns is the user id, username, email, role, full name and department
\* of that registration, without the password hash.
RegisteredCanAuthenticate ==
    /\ \A f \in history.registered :
        /\ UsersNamed(db, f.username) # {}
        /\ LET user == db.users[FirstOf(UsersNamed(db, f.username))]
           IN  user.is_active =>
                /\ Authenticates(db, f.username, f.password)
                /\ UserInfo(user) = Projection(f, user.user_id)
    /\ \A c \in Callers :
        session_state[c].authenticated =>
            \E f \in history.registered :
                session_state[c].user_info =
                    Projection(f, session_state[c].user_info.user_id)

\* C5 witness: a caller logged in with the credentials of the faculty
\* registration and holds its projection and a session.
RegisteredCanAuthenticateWitness ==
    \E c \in Callers :
        /\ session_state[c].authenticated
        /\ session_state[c].current_session_id # GhostId
        /\ session_state[c].user_info.role = "faculty"
        /\ result = Returned("login_user", LoginArgs(FormD.username, FormD.password),
                             TRUE, MsgWelcome)

\* A login_user call with these arguments ends in the step it began in.
LoginReturnsAtOnce(username, password) ==
    /\ result' # result
    /\ result'.op = "login_user"
    /\ result'.args = LoginArgs(username, password)
    /\ pc' = pc

UnknownUsername(t, username) == UsersNamed(t, username) = {}

WrongPassword(t, username, password) ==
    /\ UsersNamed(t, username) # {}
    /\ ~checkpw(password, t.users[FirstOf(UsersNamed(t, username))].password_hash)

\* C6: a login with an existing username and a wrong password and a login
\* with an unknown username end alike: the same failure and message (which
\* depends on the submitted text alone), no change of the caller's state,
\* no session, no last_login.
LoginFailuresAlike ==
    [][\A username \in LoginNames, password \in LoginPasswords :
        (/\ LoginReturnsAtOnce(username, password)
         /\ UnknownUsername(db, username) \/ WrongPassword(db, username, password))
            => /\ result' = Returned("login_user", LoginArgs(username, password), FALSE,
                                     IF password = <<>> THEN MsgEnterBoth
                                                        ELSE MsgInvalidLogin)
               /\ db' = db
               /\ session_state' = session_state]_vars

\* C6 witness: a login with a registered username and a wrong password was
\* turned down.
LoginFailuresAlikeWitness ==
    /\ result.op = "login_user"
    /\ result.message = MsgInvalidLogin
    /\ WrongPassword(db, result.args.username, result.args.password)

\* The ledger messages of a user.
Owned(t, user_id) == {i \in 1..Len(t.messages) : t.messages[i].user_id = user_id}

\* A user's messages newest first: later timestamp first, and of two
\* messages with one timestamp the one appended later first.
NewestFirst(t, user_id) ==
    CHOOSE o \in Orderings(Owned(t, user_id)) :
        \A i, j \in DOMAIN o :
            i < j => \/ t.messages[o[i]].timestamp > t.messages[o[j]].timestamp
                     \/ /\ t.messages[o[i]].timestamp = t.messages[o[j]].timestamp
                        /\ o[i] > o[j]

HistoryReturns(user_id, limit) ==
    /\ result' # result
    /\ result'.op = "get_chat_history"
    /\ result'.args = HistoryArgs(user_id, limit)

\* C11: get_chat_history(user_id, limit) returns at most limit entries, all
\* of them messages of user_id, and they are the user's newest messages,
\* newest first by timestamp with append order deciding between messages of
\* one timestamp.
HistoryNewestFirst ==
    [][\A user_id \in UserIdSpace, limit \in 0..MaxLimit :
        HistoryReturns(user_id, limit)
            => /\ Len(result'.rows) <= limit
               /\ result'.rows =
                    [i \in 1..Min(limit, Cardinality(Owned(db, user_id))) |->
                        HistoryEntry(db.messages[NewestFirst(db, user_id)[i]])]]_vars

\* The characters of the usernames by ascending code point.
CodePoints == <<"A", "a", "b", "c", "e", "i", "l", "o", "r">>

Ord(ch) == CHOOSE k \in 1..Len(CodePoints) : CodePoints[k] = ch

\* s < t for text.
RECURSIVE TextLess(_, _)
TextLess(s, t) ==
    IF t = <<>> THEN FALSE
    ELSE IF s = <<>> THEN TRUE
    ELSE IF Head(s) # Head(t) THEN Ord(Head(s)) < Ord(Head(t))
    ELSE TextLess(Tail(s), Tail(t))

ActiveUsers(t) == {i \in 1..Len(t.users) : t.users[i].is_active}

TotalOf(t, i) ==
    t.user_analytics[CHOOSE j \in 1..Len(t.user_analytics) :
                        t.user_analytics[j].user_id = t.users[i].user_id].total_queries

\* The active users by total query count descending, users of one count by
\* username ascending.
ByTotalThenUsername(t) ==
    CHOOSE o \in Orderings(ActiveUsers(t)) :
        \A i, j \in DOMAIN o :
            i < j => \/ TotalOf(t, o[i]) > TotalOf(t, o[j])
                     \/ /\ TotalOf(t, o[i]) = TotalOf(t, o[j])
                        /\ TextLess(t.users[o[i]].username, t.users[o[j]].username)

SnapshotReturns ==
    /\ result' # result
    /\ result'.op = "get_all_users_analytics"

\* C12: get_all_users_analytics returns one entry for each active user and
\* none for a deactivated user, by total query count descending and, for
\* equal counts, by username ascending.
SnapshotByTotalThenUsername ==
    [][SnapshotReturns =>
        /\ Len(result'.rows) = Cardinality(ActiveUsers(db))
        /\ \A i \in DOMAIN result'.rows :
                result'.rows[i].username =
                    db.users[ByTotalThenUsername(db)[i]].username]_vars

\* C13: every save_message of type text or image that commits for a
\* registered user adds exactly 1 to that user's total_queries and to the
\* counter of its type, leaves the counter of the other type as it was, and
\* leaves the counters of every other user as they were.
AppendCountsOnce ==
    [][(MessageInserted /\ NewMessage.user_id \in UserIds(db)) =>
        /\ Len(db'.user_analytics) = Len(db.user_analytics)
        /\ AnalyticsOf(db, NewMessage.user_id) # {}
        /\ \A i \in 1..Len(db.user_analytics) :
            IF db.user_analytics[i].user_id = NewMessage.user_id
                THEN /\ db'.user_analytics[i].total_queries =
                            db.user_analytics[i].total_queries + 1
                     /\ db'.user_analytics[i].text_queries =
                            db.user_analytics[i].text_queries +
                                (IF NewMessage.message_type = "text" THEN 1 ELSE 0)
                     /\ db'.user_analytics[i].image_queries =
                            db.user_analytics[i].image_queries +
                                (IF NewMessage.message_type = "image" THEN 1 ELSE 0)
                ELSE db'.user_analytics[i] = db.user_analytics[i]]_vars

\* C13 witness: a text message and then an image message of one user are
\* stored, that user's counters read total 2, text 1, image 1, and the other
\* user's counters are still zero.
AppendCountsOnceWitness ==
    /\ Len(db.messages) = 2
    /\ db.messages[1].message_type = "text"
    /\ db.messages[2].message_type = "image"
    /\ db.messages[1].user_id = db.messages[2].user_id
    /\ \E r \in Rows(db.user_analytics) :
        /\ r.user_id = db.messages[1].user_id
        /\ r.total_queries = 2 /\ r.text_queries = 1 /\ r.image_queries = 1
    /\ \E r \in Rows(db.user_analytics) :
        /\ r.user_id # db.messages[1].user_id
        /\ r.total_queries = 0 /\ r.text_queries = 0 /\ r.image_queries = 0

\* Caller c stands inside login_user.
InLogin(c) == pc[c] \in {"update_last_login", "login_create_chat_session"}

OwnsSession(t, user_id, session_id) ==
    \E r \in Rows(t.chat_sessions) : r.session_id = session_id /\ r.user_id = user_id

\* C14: whenever a caller is authenticated (and not in the middle of
\* login_user), user_info is set and current_session_id is a session in
\* chat_sessions owned by user_info's user: a login, failed session
\* creation included, never leaves the caller authenticated without its
\* session.
AuthenticatedHasSession ==
    \A c \in Callers :
        (session_state[c].authenticated /\ ~InLogin(c))
            => /\ session_state[c].user_info # NoUser
               /\ OwnsSession(db, session_state[c].user_info.user_id,
                              session_state[c].current_session_id)

\* C15: a step that takes a caller from authenticated to not authenticated
\* (logout) empties user_info and current_session_id, removes every chat_
\* key, and leaves the tables as they were: the abandoned session, its
\* messages and the counters stay.
LogoutClears ==
    [][\A c \in Callers :
        (session_state[c].authenticated /\ ~session_state'[c].authenticated)
            => /\ session_state'[c].user_info = NoUser
               /\ session_state'[c].current_session_id = GhostId
               /\ session_state'[c].chat_keys = {}
               /\ db' = db]_vars

\* C15 witness: a caller has logged out (its chat_ keys are gone) and the
\* session it abandoned is still in chat_sessions with a message stored
\* under it and counted.
LogoutClearsWitness ==
    \E c \in Callers :
        /\ ~session_state[c].authenticated
        /\ session_state[c].chat_keys = {}
        /\ \E r \in Rows(db.chat_sessions), m \in Rows(db.messages) :
            /\ m.session_id = r.session_id
            /\ \A d \in Callers : session_state[d].current_session_id # r.session_id
            /\ \E a \in Rows(db.user_analytics) :
                    a.user_id = r.user_id /\ a.total_queries = 1

AuthenticatedFaculty(c) ==
    /\ session_state[c].authenticated
    /\ session_state[c].user_info # NoUser
    /\ session_state[c].user_info.role = "faculty"

\* C17: get_all_users_analytics is computed only for a caller that is
\* authenticated with role faculty, never for an anonymous caller or an
\* authenticated student.
SnapshotForFacultyOnly ==
    [][SnapshotReturns => AuthenticatedFaculty(result'.args.caller)]_vars

\* C17 witness: the snapshot was computed for a faculty caller while the
\* other caller is an authenticated student.
SnapshotForFacultyOnlyWitness ==
    /\ result.op = "get_all_users_analytics"
    /\ AuthenticatedFaculty(result.args.caller)
    /\ \E c \in Callers :
        /\ session_state[c].authenticated
        /\ session_state[c].user_info.role = "student"

RoleGateReturns(c) ==
    /\ result' # result
    /\ result'.op = "require_role"
    /\ result'.args = RoleArgs(c, "faculty")

\* C18: require_role("faculty") lets an authenticated faculty caller pass
\* and stops every other caller with the log-in or the faculty-only
\* message; either way session_state and the tables stay as they were.
RoleGate ==
    [][\A c \in Callers :
        RoleGateReturns(c)
            => /\ result'.ok = AuthenticatedFaculty(c)
               /\ ~result'.ok =>
                    result'.message \in {MsgPleaseLogIn, MsgOnlyFor("faculty")}
               /\ session_state' = session_state
               /\ db' = db]_vars

\* C18 witness: require_role("faculty") stopped an authenticated student.
RoleGateWitness ==
    /\ result.op = "require_role"
    /\ ~result.ok
    /\ result.message = MsgOnlyFor("faculty")
    /\ session_state[result.args.caller].authenticated
    /\ session_state[result.args.caller].user_info.role = "student"

\* The account of this username is inactive and the password is the right
\* one.
InactiveWithPassword(t, username, password) ==
    /\ UsersNamed(t, username) # {}
    /\ ~t.users[FirstOf(UsersNamed(t, username))].is_active
    /\ checkpw(password, t.users[FirstOf(UsersNamed(t, username))].password_hash)

\* Caller c's authenticate_user succeeds in this step.
AuthenticateSucceeds(c) ==
    /\ pc[c] = "update_last_login"
    /\ pc'[c] = "login_create_chat_session"

LastLoginOf(t, user_id) ==
    t.users[CHOOSE i \in 1..Len(t.users) : t.users[i].user_id = user_id].last_login

\* C16: a login to an inactive account with the right password fails with
\* the invalid-credentials message and never goes on to update_last_login;
\* a successful authenticate sets the
\* user's last_login to the current time; a failed login changes no users
\* row, and last_login changes in no other step.
InactiveRejected ==
    [][/\ \A username \in LoginNames, password \in LoginPasswords :
            (/\ LoginReturnsAtOnce(username, password)
             /\ InactiveWithPassword(db, username, password))
                => /\ result' = Returned("login_user", LoginArgs(username, password),
                                         FALSE, MsgInvalidLogin)
                   /\ session_state' = session_state
       /\ \A c \in Callers :
            (pc[c] = "idle" /\ pc'[c] = "update_last_login")
                => ~InactiveWithPassword(db, args'[c].username, args'[c].password)
       /\ (result' # result /\ result'.op = "login_user" /\ ~result'.ok)
            => db'.users = db.users
       /\ \A c \in Callers :
            AuthenticateSucceeds(c)
                => LastLoginOf(db', args[c].user_info.user_id) = now
       /\ \A i \in 1..Len(db.users) :
            db'.users[i].last_login # db.users[i].last_login
                => \E c \in Callers :
                    /\ AuthenticateSucceeds(c)
                    /\ args[c].user_info.user_id = db.users[i].user_id]_vars

\* C16 witness: a login with the right password was turned down because
\* the account is inactive, after an earlier login to it had set last_login.
InactiveRejectedWitness ==
    /\ result.op = "login_user"
    /\ ~result.ok
    /\ result.message = MsgInvalidLogin
    /\ InactiveWithPassword(db, result.args.username, result.args.password)
    /\ db.users[FirstOf(UsersNamed(db, result.args.username))].last_login # NullTs

\* C19: create_chat_session for a user id without a users row adds no
\* chat_sessions row: every session belongs to a stored user.
UnknownUserStartsNoSession ==
    \A r \in Rows(db.chat_sessions) : r.user_id \in UserIds(db)

\* C20: save_message for a user id without a user_analytics row persists
\* no message row: every stored message belongs to a user with a counters
\* row.
UncountedMessageNotStored ==
    \A m \in Rows(db.messages) : AnalyticsOf(db, m.user_id) # {}

UserAnalyticsReturns(user_id) ==
    /\ result' # result
    /\ result'.op = "get_user_analytics"
    /\ result'.args.user_id = user_id

\* C21: get_user_analytics for a registered user who never queried returns
\* zero counts and an empty last_query_date, and what it returns for a user
\* id without a user_analytics row is something else.
NoDataIsNotAFault ==
    [][\A user_id \in UserIdSpace :
        UserAnalyticsReturns(user_id) =>
            IF AnalyticsOf(db, user_id) = {}
                THEN result'.rows # Counters(0, 0, 0, NullTs)
                ELSE (\A m \in Rows(db.messages) : m.user_id # user_id)
                        => result'.rows = Counters(0, 0, 0, NullTs)]_vars

\* The number of a user's ledger messages whose type is one of types.
MessagesOf(t, user_id, types) ==
    Cardinality({i \in 1..Len(t.messages) :
                    /\ t.messages[i].user_id = user_id
                    /\ t.messages[i].message_type \in types})

\* C22: in every committed state each registered user's total_queries is
\* the number of ledger messages of that user, text_queries the number of
\* its text messages and image_queries the number of its image messages.
LedgerMatchesCounters ==
    \A u \in Rows(db.users) :
        \A a \in Rows(db.user_analytics) :
            a.user_id = u.user_id =>
                /\ a.total_queries = Cardinality(Owned(db, u.user_id))
                /\ a.text_queries = MessagesOf(db, u.user_id, {"text"})
                /\ a.image_queries = MessagesOf(db, u.user_id, {"image"})

\* C22 witness: two users have one message each, one of them a text and the
\* other an image message, and each is counted once.
LedgerMatchesCountersWitness ==
    /\ Len(db.messages) = 2
    /\ db.messages[1].user_id # db.messages[2].user_id
    /\ db.messages[1].message_type # db.messages[2].message_type
    /\ \A a \in Rows(db.user_analytics) : a.total_queries = 1

\* The replies the generation gives together with success = False.
FailureReplies == {MsgNoTextResponse, MsgNoImageResponse}

\* C23: a round-trip whose generation reported failure produces no ledger
\* row (and so no count), for text and image queries alike: no stored
\* message carries the reply of a failed generation.
FailedRoundTripNotStored ==
    \A m \in Rows(db.messages) : m.bot_response \notin FailureReplies

\* Every stored message is covered by the last activity of its session.
ActivityCoversMessages ==
    \A m \in Rows(db.messages) :
        \A r \in Rows(db.chat_sessions) :
            r.session_id = m.session_id => r.last_activity >= m.timestamp

\* C24: the UPDATE of save_message sets the last_activity of the session
\* of the message to the current time; in the committed tables a session's
\* last_activity never decreases, changes only in a step that appends a
\* message to that session (and is then no earlier than the timestamp of
\* that message and no later than the clock), and is never earlier than
\* the timestamp of any message of the session.
LastActivityMonotone ==
    /\ []ActivityCoversMessages
    /\ [][/\ \A c \in Callers :
                (pc[c] = "save_message_touch" /\ pc'[c] = "save_message_count")
                    => \A r \in Rows(tx'[c].chat_sessions) :
                            r.session_id = args[c].session_id
                                => r.last_activity = now
          /\ \A i \in 1..Len(db.chat_sessions) :
                /\ Len(db'.chat_sessions) >= i
                /\ db'.chat_sessions[i].session_id = db.chat_sessions[i].session_id
                /\ db'.chat_sessions[i].last_activity >= db.chat_sessions[i].last_activity
                /\ db'.chat_sessions[i].last_activity # db.chat_sessions[i].last_activity
                        => /\ MessageInserted
                           /\ NewMessage.session_id = db.chat_sessions[i].session_id
                /\ (MessageInserted /\ NewMessage.session_id = db.chat_sessions[i].session_id)
                        => /\ db'.chat_sessions[i].last_activity >= NewMessage.timestamp
                           /\ db'.chat_sessions[i].last_activity <= now]_vars

\* C24 witness: a message inserted in the first second is committed in a
\* session whose last activity is the second second, next to a session
\* that was never appended to.
LastActivityMonotoneWitness ==
    /\ \A c \in Callers : pc[c] = "idle"
    /\ \E m \in Rows(db.messages) :
            \E r \in Rows(db.chat_sessions) :
                /\ r.session_id = m.session_id
                /\ m.timestamp = 1
                /\ r.last_activity = 2
    /\ \E r \in Rows(db.chat_sessions) :
            /\ r.last_activity = 1
            /\ \A m \in Rows(db.messages) : m.session_id # r.session_id

\* C25: through login, new chat session, text query, image analysis and
\* logout of any number of callers, every stored message carries the
\* user_id of the owner of the session it names, and a session id a caller
\* holds names a session owned by the user of the user_info it holds.
FlowKeepsOwnership ==
    /\ \A m \in Rows(db.messages) : OwnsSession(db, m.user_id, m.session_id)
    /\ \A c \in Callers :
            session_state[c].current_session_id # GhostId
                => /\ session_state[c].user_info # NoUser
                   /\ OwnsSession(db, session_state[c].user_info.user_id,
                                  session_state[c].current_session_id)

\* C25 witness: two callers logged in as two users, and each has a message
\* stored in the session it holds.
FlowKeepsOwnershipWitness ==
    /\ Len(db.messages) = 2
    /\ db.messages[1].user_id # db.messages[2].user_id
    /\ \A c \in Callers :
            /\ session_state[c].authenticated
            /\ \E m \in Rows(db.messages) :
                    /\ m.session_id = session_state[c].current_session_id
                    /\ m.user_id = session_state[c].user_info.user_id

\* Caller c enters save_message with a message whose type is neither text
\* nor image.
BadTypeCall(c) ==
    /\ pc[c] = "idle"
    /\ pc'[c] # "idle"
    /\ args'[c].op = "save_message"
    /\ args'[c].message.message_type \notin MessageTypes

BadTypeReturns ==
    /\ result' # result
    /\ result'.op = "save_message"
    /\ result'.args.message.message_type \notin MessageTypes

\* C26: save_message with a message type outside {text, image} raises and
\* persists nothing: the call stages no row, no last_activity and no
\* counter, the tables stay as they were until its connection is gone, so
\* every stored message has type text or image and every counters row
\* keeps total_queries = text_queries + image_queries.
BadTypePersistsNothing ==
    /\ [](/\ \A m \in Rows(db.messages) : m.message_type \in MessageTypes
          /\ \A a \in Rows(db.user_analytics) :
                a.total_queries = a.text_queries + a.image_queries)
    /\ [][/\ \A c \in Callers :
                /\ BadTypeCall(c) => /\ pc'[c] = "save_message_raised"
                                     /\ tx'[c] = db
                /\ pc[c] = "save_message_raised" => db' = db
          /\ BadTypeReturns => (~result'.ok /\ db' = db)]_vars

\* C26 witness: a message of type audio was refused with IntegrityError
\* while the ledger holds a counted message, and its connection is gone.
BadTypePersistsNothingWitness ==
    /\ \A c \in Callers : pc[c] = "idle"
    /\ result.op = "save_message"
    /\ ~result.ok
    /\ result.message = IntegrityError
    /\ result.args.message.message_type = "audio"
    /\ Len(db.messages) = 1
    /\ \A a \in Rows(db.user_analytics) : a.total_queries = 1

=============================================================================
